---- MODULE Spec2Model ----
(***************************************************************************)
(* Entity-to-website resolution (bard-verify).                             *)
(*                                                                         *)
(* One call of find_best_website_for_entity is modelled as a state machine *)
(* whose steps are the network calls the call makes: the search request,   *)
(* and for every candidate the HEAD probe and the GET fallback of          *)
(* looks_like_valid_website.  Both implementations of the resolver are     *)
(* modelled (impl = "finder" is entity_site_finder/finder.py, impl = "cli" *)
(* is find_entity_websites.py).                                            *)
(*                                                                         *)
(* Besides Spec (one call of the resolver) there are SpecFn (the helper    *)
(* functions called on their own), SpecTwice (two calls with the same      *)
(* arguments against a network that answers the same way), SpecBatch       *)
(* (the loops over the input rows of the CLI and of the app), FairSpec     *)
(* (Spec in which a call that can take a step takes one), SpecAnyChecker   *)
(* (the resolver of finder.py with any checker of the signature of         *)
(* looks_like_valid_website), SpecBoth (the two implementations called     *)
(* one after the other with the same arguments against the same network)   *)
(* and SpecRun (main followed call by call, then one call made alone).     *)
(*                                                                         *)
(* A Python string is a sequence of tokens.  A token is a substring the    *)
(* code never looks inside ("https://", "www.", "/", a word, a separator); *)
(* the alphabet is chosen so that a string has one token sequence only.    *)
(* The empty string is << >>.                                              *)
(***************************************************************************)
EXTENDS Integers, Sequences, FiniteSets, TLC

VARIABLES impl, entity_name, area_code, google_api_key, google_cx, try_tlds,
          pc, query, domain_base, candidates, metadata, idx, last_reply,
          outcome, result, raised, log, probed, search_outcome, search_hosts,
          search_reply,
          fn, fn_arg, fn_ret, fn_pc, stub, run, first_call,
          driver, rows, limit, row_i, rows_out, resolver_calls, batch_pc,
          by_area, files, calls

vars == <<impl, entity_name, area_code, google_api_key, google_cx, try_tlds,
          pc, query, domain_base, candidates, metadata, idx, last_reply,
          outcome, result, raised, log, probed, search_outcome, search_hosts,
          search_reply,
          fn, fn_arg, fn_ret, fn_pc, stub, run, first_call,
          driver, rows, limit, row_i, rows_out, resolver_calls, batch_pc,
          by_area, files, calls>>

\* the state of one call of a helper function on its own: the function, its
\* argument, what it returned, and whether it has returned
fnvars == <<fn, fn_arg, fn_ret, fn_pc>>

\* two calls in a row against a network stub: the answers the stub has given
\* so far, the number of the call, and what the first call returned and
\* requested
stubvars == <<stub, run, first_call>>

\* a batch driver loop: which driver, the rows of the input file, the row
\* limit, the row at hand, the results appended, the entity names the
\* resolver was called with, whether the loop runs, is over or raised, the
\* results grouped by area (a dict, in insertion order), the files written,
\* and for every call of the resolver that is over its arguments, what it
\* returned and what it requested
batchvars ==
    <<driver, rows, limit, row_i, rows_out, resolver_calls, batch_pc,
      by_area, files, calls>>

args == <<impl, entity_name, area_code, google_api_key, google_cx, try_tlds>>

-----------------------------------------------------------------------------
(* Bounds *)

\* longest list of result items the search API answers with
MaxItems == 2

-----------------------------------------------------------------------------
(* Python values *)

\* Python's None where a string is optional (not a string of the model)
None == <<"<None>">>

\* Python's None where an int is optional
StatusNone == -1

EmptyStr == << >>

\* truth value of an Optional[str]: None and "" are falsy
Truthy(s) == s # None /\ s # EmptyStr

\* str.lower() on one token
LowerTok(t) ==
    CASE t = "Acme" -> "acme"
      [] t = "Plumbing" -> "plumbing"
      [] t = "LLC" -> "llc"
      [] t = "Corp" -> "corp"
      [] t = "A" -> "a"
      [] t = "B" -> "b"
      [] t = "Yelp" -> "yelp"
      [] t = "WWW." -> "www."
      [] OTHER -> t

\* str.lower()
Lower(s) == [i \in 1..Len(s) |-> LowerTok(s[i])]

\* s with every token that is in drop deleted
RECURSIVE Without(_, _)
Without(s, drop) ==
    IF s = << >> THEN << >>
    ELSE IF Head(s) \in drop THEN Without(Tail(s), drop)
    ELSE <<Head(s)>> \o Without(Tail(s), drop)

\* whitespace tokens
Whitespace == {" "}

\* str.strip(): leading and trailing whitespace removed
RECURSIVE LStrip(_)
LStrip(s) ==
    IF s # << >> /\ Head(s) \in Whitespace THEN LStrip(Tail(s)) ELSE s

RECURSIVE RStrip(_)
RStrip(s) ==
    IF s # << >> /\ s[Len(s)] \in Whitespace
    THEN RStrip(SubSeq(s, 1, Len(s) - 1)) ELSE s

Strip(s) == RStrip(LStrip(s))

\* index of the first token of s that is in set, Len(s) + 1 if none
RECURSIVE FirstIn(_, _, _)
FirstIn(s, set, i) ==
    IF i > Len(s) THEN i
    ELSE IF s[i] \in set THEN i
    ELSE FirstIn(s, set, i + 1)

-----------------------------------------------------------------------------
(* NameNormalizer *)

\* the legal suffix words, in the order the loop removes them
suffixes == <<"llc", "inc", "corp", "co", "company", "ltd", "limited",
              "pllc", "pc", "partners">>

\* tokens made of [a-z0-9] characters only
AlnumTokens == {"acme", "plumbing", "a", "b", "and", "llc", "inc", "corp",
                "co", "company", "ltd", "limited", "pllc", "pc", "partners",
                "24"}

\* tokens made of regex word characters (\w): letters (of any alphabet),
\* digits and "_"
IsWordTok(t) == t \in AlnumTokens \/ t \in {"_", "é"}

\* re.sub(r"\bw\b", "", name): every whole-word occurrence of w deleted
RECURSIVE RemoveWord(_, _, _)
RemoveWord(s, w, i) ==
    IF i > Len(s) THEN << >>
    ELSE IF /\ s[i] = w
            /\ (i = 1 \/ ~IsWordTok(s[i - 1]))
            /\ (i = Len(s) \/ ~IsWordTok(s[i + 1]))
         THEN RemoveWord(s, w, i + 1)
         ELSE <<s[i]>> \o RemoveWord(s, w, i + 1)

\* the loop "for s in suffixes: name = re.sub(s, "", name)" from suffix k on
RECURSIVE RemoveSuffixes(_, _)
RemoveSuffixes(s, k) ==
    IF k > Len(suffixes) THEN s
    ELSE RemoveSuffixes(RemoveWord(s, suffixes[k], 1), k + 1)

\* name.replace("&", " and ")
RECURSIVE ReplaceAmp(_)
ReplaceAmp(s) ==
    IF s = << >> THEN << >>
    ELSE IF Head(s) = "&" THEN <<" ", "and", " ">> \o ReplaceAmp(Tail(s))
    ELSE <<Head(s)>> \o ReplaceAmp(Tail(s))

\* KeepAlnum that deletes the non-word characters (\W) only
RECURSIVE KeepAlnum_Word(_)
KeepAlnum_Word(s) ==
    IF s = << >> THEN << >>
    ELSE IF IsWordTok(Head(s)) THEN <<Head(s)>> \o KeepAlnum_Word(Tail(s))
    ELSE KeepAlnum_Word(Tail(s))

\* re.sub(r"[^a-z0-9]+", "", name)
RECURSIVE KeepAlnum(_)
KeepAlnum(s) ==
    IF s = << >> THEN << >>
    ELSE IF Head(s) \in AlnumTokens THEN <<Head(s)>> \o KeepAlnum(Tail(s))
    ELSE KeepAlnum(Tail(s))

normalize_name_to_domain_base(name) ==
    KeepAlnum(ReplaceAmp(RemoveSuffixes(Strip(Lower(name)), 1)))

-----------------------------------------------------------------------------
(* HostExtractor *)

Schemes == {"https://", "http://"}

\* the characters that end the authority of a URL
AuthorityEnd == {"/", "?", "#"}

\* urlparse(url).netloc: what follows "scheme://" up to "/", "?" or "#"
Netloc(url) ==
    IF url # << >> /\ Head(url) \in Schemes
    THEN SubSeq(url, 2, FirstIn(url, AuthorityEnd, 2) - 1)
    ELSE << >>

\* host[4:] when host.startswith("www.")
StripWww(host) ==
    IF host # << >> /\ Head(host) = "www." THEN Tail(host) ELSE host

\* google_search.extract_domain
extract_domain(url) ==
    LET host == StripWww(Lower(Netloc(url)))
    IN  IF host # << >> THEN host ELSE None

\* find_entity_websites.extract_registered_domain
extract_registered_domain(url) ==
    LET host == Lower(Netloc(url))
    IN  IF host = << >> THEN None ELSE StripWww(host)

\* final_url.replace("https://", "").replace("http://", "").split("/")[0]
SplitHost(url) ==
    LET s == Without(Without(url, {"https://"}), {"http://"})
    IN  SubSeq(s, 1, FirstIn(s, {"/"}, 1) - 1)

-----------------------------------------------------------------------------
(* LivenessChecker *)

\* status codes a server answers with
Statuses == {199, 200, 399, 400}

\* IsLive that accepts the informational statuses as well
IsLive_From100(status) == 100 <= status /\ status < 400

\* IsLive with the upper limit included
IsLive_Upto400(status) == 200 <= status /\ status <= 400

\* "live = 200 <= response.status_code < 400"
IsLive(status) == 200 <= status /\ status < 400

\* NeedsGet for the two named codes only
NeedsGet_NamedOnly(status) == status \in {403, 405}

\* "if response.status_code in (403, 405) or response.status_code >= 400"
\* (find_entity_websites.py: "r.status_code >= 400 or r.status_code == 405")
NeedsGet(status) == status \in {403, 405} \/ status >= 400

\* the URL a response reports after redirects: the requested URL, the
\* "www." host of the same site on some page, or a page of another site
\* (allow_redirects=True follows a redirect to any host)
FinalUrls(url) ==
    {url, <<Head(url), "www.">> \o Netloc(url) \o <<"/", "home">>,
     <<"https://", "facebook", ".", "com", "/", "acme">>}

\* what requests.head / requests.get do: raise requests.RequestException
\* (timeout, refused connection, DNS or TLS failure), or return a response.
\* Every status is answered at the requested URL, and 200 also after a
\* redirect.
RequestException ==
    [raised |-> TRUE, exc |-> "RequestException", status_code |-> StatusNone,
     url |-> None]

Responses(url) ==
    [raised : {FALSE}, exc : {"-"}, status_code : Statuses, url : {url}]
    \cup [raised : {FALSE}, exc : {"-"}, status_code : {200}, url : FinalUrls(url)]

Replies(url) == {RequestException} \cup Responses(url)

\* CheckerCatches with a handler that catches nothing requests raises
CheckerCatches_Nothing(exc) == FALSE

\* "except requests.RequestException:" catches the exceptions of requests
CheckerCatches(exc) == exc = "RequestException"

\* "return live, response.status_code, response.url"
ReturnOf(response) ==
    [live |-> IsLive(response.status_code),
     status |-> response.status_code,
     final_url |-> response.url]

\* ReturnOnException that reports the response at hand, the one of the HEAD
\* probe when the GET raises: "return False, response.status_code,
\* response.url"
ReturnOnException_OfResponse ==
    [live |-> FALSE, status |-> last_reply.status_code,
     final_url |-> last_reply.url]

\* "except requests.RequestException: return False, None, None"
ReturnOnException == [live |-> FALSE, status |-> StatusNone, final_url |-> None]

\* no request made yet, no check returned yet
NoReply ==
    [kind |-> "-", raised |-> FALSE, exc |-> "-", status_code |-> StatusNone,
     url |-> None]
NoOutcome == [live |-> FALSE, status |-> StatusNone, final_url |-> EmptyStr]

\* the reply of a HEAD or GET request, as the last reply received
Received(kind, reply) ==
    [kind |-> kind, raised |-> reply.raised, exc |-> reply.exc,
     status_code |-> reply.status_code, url |-> reply.url]

-----------------------------------------------------------------------------
(* CandidateSearchProvider *)

\* google_search.COMMON_NON_OFFICIAL_HOSTS (the hosts the model uses)
COMMON_NON_OFFICIAL_HOSTS ==
    {<<"facebook", ".", "com">>, <<"yelp", ".", "com">>,
     <<"google", ".", "com">>}

\* find_entity_websites.COMMON_NON_OFFICIAL_HOSTS: also m.facebook.com
COMMON_NON_OFFICIAL_HOSTS_cli ==
    COMMON_NON_OFFICIAL_HOSTS \cup {<<"m", ".", "facebook", ".", "com">>}

DenyList(im) ==
    IF im = "finder" THEN COMMON_NON_OFFICIAL_HOSTS
    ELSE COMMON_NON_OFFICIAL_HOSTS_cli

HostOf(im, link) ==
    IF im = "finder" THEN extract_domain(link)
    ELSE extract_registered_domain(link)

\* the first loop of candidate_domains_from_search: the hosts kept
RECURSIVE KeptHosts(_, _)
KeptHosts(im, items) ==
    IF items = << >> THEN << >>
    ELSE LET link == Head(items).link
             rest == KeptHosts(im, Tail(items))
         IN  IF ~Truthy(link) THEN rest
             ELSE IF ~Truthy(HostOf(im, link)) THEN rest
             ELSE IF HostOf(im, link) \in DenyList(im) THEN rest
             ELSE <<HostOf(im, link)>> \o rest

\* Dedupe without the "if d not in seen" test
Dedupe_KeepAll(domains, seen) == domains

\* the second loop: duplicates removed, first occurrence kept
RECURSIVE Dedupe(_, _)
Dedupe(domains, seen) ==
    IF domains = << >> THEN << >>
    ELSE IF Head(domains) \in seen THEN Dedupe(Tail(domains), seen)
    ELSE <<Head(domains)>> \o Dedupe(Tail(domains), seen \cup {Head(domains)})

candidate_domains_from_search(im, items) == Dedupe(KeptHosts(im, items), {})

\* the result items the search API can answer with
ItemSet ==
    {[link |-> <<"https://", "www.", "Acme", ".", "com", "/", "about">>],
     [link |-> <<"http://", "acme-plumbing", ".", "net", "/">>],
     [link |-> <<"https://", "www.", "yelp", ".", "com", "/", "biz">>],
     [link |-> <<"not", " ", "a", " ", "url">>],
     [link |-> None]}

RECURSIVE SeqsUpTo(_, _)
SeqsUpTo(S, n) ==
    IF n = 0 THEN {<< >>}
    ELSE LET shorter == SeqsUpTo(S, n - 1)
         IN  shorter \cup {Append(s, x) : s \in {t \in shorter : Len(t) = n - 1}, x \in S}

\* what google_custom_search does: requests.get raises, raise_for_status
\* raises on a non-success status, resp.json() raises on a malformed body,
\* or the body is a JSON object whose "items" is absent, null or a list
SearchFailures == {"transport", "http_error", "bad_json"}

SearchReplies ==
    [kind : SearchFailures, items : {<< >>}]
    \cup [kind : {"no_items", "null_items"}, items : {<< >>}]
    \cup [kind : {"items"}, items : SeqsUpTo(ItemSet, MaxItems)]

\* the response to the search request as the call sees it: how it ended,
\* and the number of items of the body
ResponseOf(reply) == [kind |-> reply.kind, n |-> Len(reply.items)]

\* no search request made (yet)
NoSearchReply == [kind |-> "-", n |-> 0]

\* "return data.get("items", []) or []"
ItemsOf(reply) == IF reply.kind = "items" THEN reply.items ELSE << >>

-----------------------------------------------------------------------------
(* EntityResolver *)

\* the word between the quoted name and the location hint:
\* finder.py builds '"{name}" official website {area}', the CLI
\* '"{name}" website {area}'
QueryWords(im) ==
    IF im = "finder" THEN <<" ", "official", " ", "website", " ">>
    ELSE <<" ", "website", " ">>

\* Query without the .strip()
Query_NoStrip(im, name, area) ==
    <<"\"">> \o name \o <<"\"">> \o QueryWords(im) \o area

\* f'"{entity_name}" official website {area_code}'.strip()
Query(im, name, area) ==
    Strip(<<"\"">> \o name \o <<"\"">> \o QueryWords(im) \o area)

\* the q parameter of the search request: search_entity_domains of
\* google_search.py builds the string again from the name and the hint, the
\* CLI passes the query it built to google_custom_search
SentQuery(im, name, area, q) ==
    IF im = "finder"
    THEN Strip(<<"\"">> \o name \o <<"\"", " ", "official", " ", "website", " ">>
               \o area)
    ELSE q

\* the two candidates of one host: https first, then http
HostCandidates(method, host) ==
    <<[method |-> method, url |-> <<"https://">> \o host \o <<"/">>],
      [method |-> method, url |-> <<"http://">> \o host \o <<"/">>]>>

\* "for domain in domains: candidates.append(...); candidates.append(...)"
RECURSIVE SearchCandidates(_)
SearchCandidates(domains) ==
    IF domains = << >> THEN << >>
    ELSE HostCandidates("google", Head(domains)) \o SearchCandidates(Tail(domains))

\* guessed_domain = f"{domain_base}.{tld}"
GuessedDomain(base, tld) == base \o <<".", tld>>

\* GuessedDomains without the "if domain_base:" test
GuessedDomains_NoEmptyCheck(base, tlds) ==
    [i \in 1..Len(tlds) |-> GuessedDomain(base, tlds[i])]

\* metadata["guessed_urls"] after the loop over try_tlds
GuessedDomains(base, tlds) ==
    IF base = EmptyStr THEN << >>
    ELSE [i \in 1..Len(tlds) |-> GuessedDomain(base, tlds[i])]

\* the candidates the loop over try_tlds appends
RECURSIVE GuessCandidates(_)
GuessCandidates(guessed) ==
    IF guessed = << >> THEN << >>
    ELSE HostCandidates("guess", Head(guessed)) \o GuessCandidates(Tail(guessed))

\* json.dumps of a list of strings
RECURSIVE JsonList(_)
JsonList(l) ==
    IF l = << >> THEN << >>
    ELSE <<"\"">> \o Head(l) \o <<"\"">>
         \o (IF Len(l) > 1 THEN <<", ">> ELSE << >>) \o JsonList(Tail(l))

\* json.dumps(metadata)
json_dumps(meta) ==
    <<"{", "\"google_domains\": ", "[">> \o JsonList(meta.google_domains)
    \o <<"]", ", ", "\"guessed_urls\": ", "[">> \o JsonList(meta.guessed_urls)
    \o <<"]", "}">>

\* str(status): finder.py writes str(status), the CLI
\* 'str(status) if status is not None else ""'
StatusStr(im, status) ==
    IF status = StatusNone
    THEN (IF im = "finder" THEN <<"None">> ELSE EmptyStr)
    ELSE <<ToString(status)>>

\* "final_url or url"
OrUrl(final_url, url) == IF Truthy(final_url) THEN final_url ELSE url

\* best_domain of a live candidate
BestDomain(im, final_url, url) ==
    IF im = "finder" THEN SplitHost(final_url)
    ELSE LET host == extract_registered_domain(OrUrl(final_url, url))
         IN  IF Truthy(host) THEN host ELSE EmptyStr

\* the ResultRow of the "if live:" branch
LiveRow(im, name, area, q, meta, cand, out) ==
    [area_code |-> area,
     entity_name |-> name,
     search_query |-> q,
     best_domain |-> BestDomain(im, out.final_url, cand.url),
     best_url |-> OrUrl(out.final_url, cand.url),
     best_http_status |-> StatusStr(im, out.status),
     method |-> cand.method,
     other_candidates |-> json_dumps(meta)]

\* NoneRow with str(None) as the status
NoneRow_StrNone(name, area, q, meta) ==
    [area_code |-> area,
     entity_name |-> name,
     search_query |-> q,
     best_domain |-> EmptyStr,
     best_url |-> EmptyStr,
     best_http_status |-> <<"None">>,
     method |-> "none",
     other_candidates |-> json_dumps(meta)]

\* the ResultRow returned after the loop
NoneRow(name, area, q, meta) ==
    [area_code |-> area,
     entity_name |-> name,
     search_query |-> q,
     best_domain |-> EmptyStr,
     best_url |-> EmptyStr,
     best_http_status |-> EmptyStr,
     method |-> "none",
     other_candidates |-> json_dumps(meta)]

\* no ResultRow returned (yet)
NoResult == [method |-> "<no result>"]

-----------------------------------------------------------------------------
(* Inputs *)

Impls == {"finder", "cli"}

\* the input rows: the entity name and the area code of a row
Rows ==
    {[entity_name |-> <<"Acme", ",", " ", "LLC">>, area_code |-> <<"415">>],
     [entity_name |-> <<"LLC">>, area_code |-> EmptyStr]}

\* (google_api_key, google_cx): both present, one missing, one empty
Credentials ==
    {<<<<"KEY">>, <<"CX">>>>, <<<<"KEY">>, None>>, <<EmptyStr, <<"CX">>>>}

Tlds == {"com", "org"}

\* the values of try_tlds: the lists of different TLDs, in every order
TldLists ==
    {l \in SeqsUpTo(Tlds, Cardinality(Tlds)) :
       \A i, j \in 1..Len(l) : l[i] = l[j] => i = j}

-----------------------------------------------------------------------------
(* The call *)

\* no helper function is called on its own
FnIdle == fn = "-" /\ fn_arg = << >> /\ fn_ret = << >> /\ fn_pc = "-"

\* no network stub: every request is answered on its own
NoFirst == [result |-> NoResult, raised |-> FALSE, log |-> << >>]
StubIdle == stub = {} /\ run = 0 /\ first_call = NoFirst

\* EntryCandidates for a list that outlives the call
EntryCandidates_Kept(prev) == prev

\* "candidates: List[Tuple[str, str]] = []" at the entry of the call
EntryCandidates(prev) == << >>

\* the entry of find_best_website_for_entity: the arguments, the query and
\* the empty lists
Enter ==
    /\ impl \in Impls
    /\ \E row \in Rows :
         entity_name = row.entity_name /\ area_code = row.area_code
    /\ \E c \in Credentials : google_api_key = c[1] /\ google_cx = c[2]
    /\ try_tlds \in TldLists
    /\ pc = "assemble"
    /\ query = Query(impl, entity_name, area_code)
    /\ domain_base = EmptyStr
    /\ candidates = EntryCandidates(<< >>)
    /\ metadata = [google_domains |-> << >>, guessed_urls |-> << >>]
    /\ idx = 0
    /\ last_reply = NoReply
    /\ outcome = NoOutcome
    /\ result = NoResult
    /\ raised = FALSE
    /\ log = << >>
    /\ probed = << >>
    /\ search_outcome = "pending"
    /\ search_hosts = << >>
    /\ search_reply = NoSearchReply

\* no batch driver runs
BatchIdle ==
    /\ driver = "-"
    /\ rows = << >>
    /\ limit = 0
    /\ row_i = 0
    /\ rows_out = << >>
    /\ resolver_calls = << >>
    /\ batch_pc = "-"
    /\ by_area = << >>
    /\ files = {}
    /\ calls = << >>

Init == Enter /\ FnIdle /\ StubIdle /\ BatchIdle

\* HasCredentials that looks at the API key only
HasCredentials_KeyOnly(key, cx) == Truthy(key)

\* "if google_api_key and google_cx:"
HasCredentials(key, cx) == Truthy(key) /\ Truthy(cx)

\* SearchCatches with "except requests.RequestException:": a malformed
\* body is not caught
SearchCatches_RequestsOnly(kind) == kind \in {"transport", "http_error"}

\* SearchCatches for the failures of the connection only
SearchCatches_TransportOnly(kind) == kind = "transport"

\* "except Exception:" around the search call catches every failure
SearchCatches(kind) == kind \in SearchFailures

\* Assembled with the two steps swapped: guesses first
Assembled_GuessFirst(domains, guessed) ==
    GuessCandidates(guessed) \o SearchCandidates(domains)

\* the candidate list after steps 1 and 2
Assembled(domains, guessed) ==
    SearchCandidates(domains) \o GuessCandidates(guessed)

\* AuditOf that forgets the guesses
AuditOf_NoGuesses(domains, guessed) ==
    [google_domains |-> domains, guessed_urls |-> << >>]

\* the metadata dict after steps 1 and 2
AuditOf(domains, guessed) ==
    [google_domains |-> domains, guessed_urls |-> guessed]

\* the state after the candidate list is built: the loop starts, or with no
\* candidate at all the "none" row is returned at once
StartLoop(base, cands, meta) ==
    /\ domain_base' = base
    /\ candidates' = candidates \o cands
    /\ metadata' = meta
    /\ raised' = raised
    /\ IF candidates \o cands = << >>
       THEN /\ result' = NoneRow(entity_name, area_code, query, meta)
            /\ pc' = "done"
            /\ idx' = 0
       ELSE /\ result' = result
            /\ pc' = "head"
            /\ idx' = 1

\* the rows of the input file of a batch that is followed call by call: a
\* blank name, a name with blanks around it, a name that is a suffix word
\* only, with an area code or without
RunRowSet ==
    {[name |-> <<" ">>, area |-> <<"415">>],
     [name |-> <<" ", "Acme", " ">>, area |-> <<"415">>],
     [name |-> <<"LLC">>, area |-> None]}

\* the entity names a call is made with
EntityNames ==
    {row.entity_name : row \in Rows} \cup {Strip(row.name) : row \in RunRowSet}

\* "domain_base = normalize_name_to_domain_base(entity_name)" for each of them
DomainBases ==
    [name \in EntityNames |-> normalize_name_to_domain_base(name)]

\* steps 1 and 2 of find_best_website_for_entity: the search call when both
\* credentials are given, then the guesses
AssembleWith(replies) ==
    /\ pc = "assemble"
    /\ \E base \in {DomainBases[entity_name]} :
       \E guessed \in {GuessedDomains(base, try_tlds)} :
           IF HasCredentials(google_api_key, google_cx)
           THEN \E reply \in replies :
                  /\ log' = Append(log, [kind |-> "SEARCH", pos |-> 0,
                                         url |-> SentQuery(impl, entity_name,
                                                           area_code, query)])
                  /\ search_reply' = ResponseOf(reply)
                  /\ IF reply.kind \in SearchFailures
                     THEN IF SearchCatches(reply.kind)
                          THEN \* "except Exception: pass"
                               /\ search_outcome' = "raised"
                               /\ search_hosts' = << >>
                               /\ StartLoop(base, Assembled(<< >>, guessed),
                                            AuditOf(<< >>, guessed))
                          ELSE \* the exception leaves the call
                               /\ search_outcome' = "raised"
                               /\ raised' = TRUE
                               /\ pc' = "done"
                               /\ UNCHANGED <<search_hosts, domain_base,
                                              candidates, metadata, result,
                                              idx>>
                     ELSE LET domains ==
                                  candidate_domains_from_search(impl, ItemsOf(reply))
                          IN  /\ search_outcome' = "returned"
                              /\ search_hosts' = domains
                              /\ StartLoop(base, Assembled(domains, guessed),
                                           AuditOf(domains, guessed))
           ELSE /\ log' = log
                /\ search_reply' = search_reply
                /\ search_outcome' = "skipped"
                /\ search_hosts' = << >>
                /\ StartLoop(base, Assembled(<< >>, guessed),
                             AuditOf(<< >>, guessed))
    /\ UNCHANGED <<args, query, last_reply, outcome, probed>>

\* the search request is answered with any reply of the search API
DoAssemble == AssembleWith(SearchReplies)

Assemble == DoAssemble /\ UNCHANGED <<fnvars, stubvars, batchvars>>

\* AfterCheck without the "return" of the "if live:" branch for a candidate
\* that is not the last: the loop goes on after a live check
AfterCheck_NoReturn(out) ==
    /\ outcome' = out
    /\ probed' = Append(probed, [pos |-> idx, live |-> out.live])
    /\ IF idx < Len(candidates)
       THEN /\ idx' = idx + 1
            /\ pc' = "head"
            /\ UNCHANGED <<result, raised>>
       ELSE /\ result' = IF out.live
                         THEN LiveRow(impl, entity_name, area_code, query,
                                      metadata, candidates[idx], out)
                         ELSE NoneRow(entity_name, area_code, query, metadata)
            /\ pc' = "done"
            /\ UNCHANGED <<raised, idx>>

\* the body of "for method, url in candidates" once the check of candidate
\* idx has returned out: return the live row, go on, or return the none row
AfterCheck(out) ==
    /\ outcome' = out
    /\ probed' = Append(probed, [pos |-> idx, live |-> out.live])
    /\ IF out.live
       THEN IF impl = "finder" /\ out.final_url = None
            THEN \* final_url.replace on None: AttributeError
                 /\ raised' = TRUE
                 /\ pc' = "done"
                 /\ UNCHANGED <<result, idx>>
            ELSE /\ result' = LiveRow(impl, entity_name, area_code, query,
                                      metadata, candidates[idx], out)
                 /\ pc' = "done"
                 /\ UNCHANGED <<raised, idx>>
       ELSE IF idx < Len(candidates)
            THEN /\ idx' = idx + 1
                 /\ pc' = "head"
                 /\ UNCHANGED <<result, raised>>
            ELSE /\ result' = NoneRow(entity_name, area_code, query, metadata)
                 /\ pc' = "done"
                 /\ UNCHANGED <<raised, idx>>

\* OnException that tries the same candidate again
OnException_Retry(exc) ==
    /\ pc' = "head"
    /\ UNCHANGED <<outcome, probed, result, raised, idx>>

\* an exception of requests.head / requests.get inside the check: caught and
\* turned into (False, None, None), or it leaves the call
OnException(exc) ==
    IF CheckerCatches(exc)
    THEN AfterCheck(ReturnOnException)
    ELSE /\ raised' = TRUE
         /\ pc' = "done"
         /\ UNCHANGED <<outcome, probed, result, idx>>

\* requests.head(url) of looks_like_valid_website for candidate idx
DoHeadProbe ==
    /\ pc = "head"
    /\ \E reply \in Replies(candidates[idx].url) :
         /\ log' = Append(log, [kind |-> "HEAD", pos |-> idx,
                                url |-> candidates[idx].url])
         /\ last_reply' = Received("HEAD", reply)
         /\ IF reply.raised
            THEN OnException(reply.exc)
            ELSE IF NeedsGet(reply.status_code)
                 THEN /\ pc' = "get"
                      /\ UNCHANGED <<outcome, probed, result, raised, idx>>
                 ELSE AfterCheck(ReturnOf(reply))
    /\ UNCHANGED <<args, query, domain_base, candidates, metadata,
                   search_outcome, search_hosts, search_reply>>

HeadProbe == DoHeadProbe /\ UNCHANGED <<fnvars, stubvars, batchvars>>

\* requests.get(url) of looks_like_valid_website for candidate idx
DoGetFallback ==
    /\ pc = "get"
    /\ \E reply \in Replies(candidates[idx].url) :
         /\ log' = Append(log, [kind |-> "GET", pos |-> idx,
                                url |-> candidates[idx].url])
         /\ last_reply' = Received("GET", reply)
         /\ IF reply.raised
            THEN OnException(reply.exc)
            ELSE AfterCheck(ReturnOf(reply))
    /\ UNCHANGED <<args, query, domain_base, candidates, metadata,
                   search_outcome, search_hosts, search_reply>>

GetFallback == DoGetFallback /\ UNCHANGED <<fnvars, stubvars, batchvars>>

Next == Assemble \/ HeadProbe \/ GetFallback

Spec == Init /\ [][Next]_vars

\* every network call returns or raises within its timeout (timeout=15 of
\* the search request, timeout=timeout of requests.head and requests.get),
\* so the step that waits for it is taken
Fairness ==
    /\ WF_vars(Assemble)
    /\ WF_vars(HeadProbe)
    /\ WF_vars(GetFallback)

FairSpec == Spec /\ Fairness

\* what a liveness checker of the declared type Tuple[bool, Optional[int],
\* Optional[str]] can return for a URL: not live, or live with a final
\* URL, with an empty one, or with none
CheckerReturns(url) ==
    {ReturnOnException}
    \cup [live : {TRUE}, status : {200}, final_url : FinalUrls(url) \cup {None, EmptyStr}]
    \cup [live : {FALSE}, status : {400}, final_url : {url}]

\* "live, status, final_url = looks_like_valid_website(url, timeout=timeout)"
\* with the checker replaced by any function of its type
AnyCheck ==
    /\ pc = "head"
    /\ \E out \in CheckerReturns(candidates[idx].url) : AfterCheck(out)
    /\ UNCHANGED <<args, query, domain_base, candidates, metadata, log,
                   last_reply, search_outcome, search_hosts, search_reply,
                   fnvars, stubvars, batchvars>>

NextAnyChecker == Assemble \/ AnyCheck

SpecAnyChecker == Init /\ [][NextAnyChecker]_vars

TypeOK ==
    /\ pc \in {"assemble", "head", "get", "done", "idle"}
    /\ idx \in 0..Len(candidates)
    /\ raised \in BOOLEAN

-----------------------------------------------------------------------------
(* Two calls with the same arguments against a deterministic network stub *)

\* the stub answers a request as it answered the same request before
StubAnswers(kind, url, reply) ==
    \A e \in stub : (e.kind = kind /\ e.url = url) => e.reply = reply

\* the stub after it has answered a request
StubWith(kind, url, reply) ==
    stub \cup {[kind |-> kind, url |-> url, reply |-> reply]}

\* most hosts the stub of the search provider returns
MaxStubHosts == 1

\* finder.find_best_website_for_entity is called with the TLD "com"
\* configured; the stub has not answered anything yet
InitTwice ==
    /\ Enter
    /\ impl = "finder"
    /\ try_tlds = <<"com">>
    /\ FnIdle
    /\ BatchIdle
    /\ stub = {}
    /\ run = 1
    /\ first_call = NoFirst

\* what search_entity_domains does with a reply of the search API: it
\* raises, or it returns the hosts of the items
ProviderAnswers ==
    [im \in Impls |->
       [reply \in SearchReplies |->
          IF reply.kind \in SearchFailures
          THEN [outcome |-> "raised", hosts |-> << >>]
          ELSE [outcome |-> "returned",
                hosts |-> candidate_domains_from_search(im, ItemsOf(reply))]]]

ProviderAnswer(reply) == ProviderAnswers[impl][reply]

\* for every answer of the search provider, one reply of the search API that
\* makes the provider give it
AnswerReplies ==
    [im \in Impls |->
       {CHOOSE reply \in SearchReplies : ProviderAnswers[im][reply] = a :
          a \in {ProviderAnswers[im][reply] : reply \in SearchReplies}}]

\* the replies the stub of the search provider can give to the query of the
\* call: the same as before if it was asked before
StubReplies ==
    {reply \in AnswerReplies[impl] :
       /\ Len(ProviderAnswer(reply).hosts) <= MaxStubHosts
       /\ StubAnswers("SEARCH",
                      SentQuery(impl, entity_name, area_code, query),
                      ProviderAnswer(reply))}

\* steps 1 and 2 of the call; the search provider is the stub: for a query
\* it raises or returns a list of hosts, the same every time
TwiceAssemble ==
    /\ run \in {1, 2}
    /\ AssembleWith(StubReplies)
    /\ LET asked == Len(log') > Len(log)
           q == log'[Len(log')].url
           answer == [outcome |-> search_outcome', hosts |-> search_hosts']
       IN  /\ asked => StubAnswers("SEARCH", q, answer)
           /\ stub' = IF asked THEN StubWith("SEARCH", q, answer) ELSE stub
    /\ UNCHANGED <<run, first_call, fnvars, batchvars>>

\* requests.head(url) answered by the stub
TwiceHeadProbe ==
    /\ run \in {1, 2}
    /\ DoHeadProbe
    /\ StubAnswers("HEAD", candidates[idx].url, last_reply')
    /\ stub' = StubWith("HEAD", candidates[idx].url, last_reply')
    /\ UNCHANGED <<run, first_call, fnvars, batchvars>>

\* requests.get(url) answered by the stub
TwiceGetFallback ==
    /\ run \in {1, 2}
    /\ DoGetFallback
    /\ StubAnswers("GET", candidates[idx].url, last_reply')
    /\ stub' = StubWith("GET", candidates[idx].url, last_reply')
    /\ UNCHANGED <<run, first_call, fnvars, batchvars>>

\* the first call is over: the function is called again with the same
\* arguments, its locals are created anew
SecondCall ==
    /\ run = 1
    /\ pc = "done"
    /\ first_call' = [result |-> result, raised |-> raised, log |-> log]
    /\ run' = 2
    /\ pc' = "assemble"
    /\ query' = Query(impl, entity_name, area_code)
    /\ domain_base' = EmptyStr
    /\ candidates' = EntryCandidates(candidates)
    /\ metadata' = [google_domains |-> << >>, guessed_urls |-> << >>]
    /\ idx' = 0
    /\ last_reply' = NoReply
    /\ outcome' = NoOutcome
    /\ result' = NoResult
    /\ raised' = FALSE
    /\ log' = << >>
    /\ probed' = << >>
    /\ search_outcome' = "pending"
    /\ search_hosts' = << >>
    /\ search_reply' = NoSearchReply
    /\ UNCHANGED <<args, stub, fnvars, batchvars>>

NextTwice == TwiceAssemble \/ TwiceHeadProbe \/ TwiceGetFallback \/ SecondCall

SpecTwice == InitTwice /\ [][NextTwice]_vars

-----------------------------------------------------------------------------
(* The two implementations, called one after the other with the same       *)
(* arguments against the same network                                      *)

\* longest list of result items the search API answers with here
MaxBothItems == 1

\* the result items: a link to the site of the entity, and a link to a host
\* that only find_entity_websites.py deny-lists
BothItemSet ==
    {[link |-> <<"https://", "www.", "Acme", ".", "com", "/", "about">>],
     [link |-> <<"https://", "m", ".", "facebook", ".", "com", "/", "acme">>]}

\* what the search API does: the request fails, or it answers with items
BothSearchReplies ==
    [kind : {"transport"}, items : {<< >>}]
    \cup [kind : {"items"}, items : SeqsUpTo(BothItemSet, MaxBothItems)]

\* endpoint = "https://www.googleapis.com/customsearch/v1"
endpoint == <<"https://", "www.", "googleapis", ".", "com", "/", "customsearch/v1">>

\* entity_site_finder.finder.find_best_website_for_entity is called first
InitBoth ==
    /\ Enter
    /\ impl = "finder"
    /\ try_tlds = <<"com">>
    /\ FnIdle
    /\ BatchIdle
    /\ stub = {}
    /\ run = 1
    /\ first_call = NoFirst

\* steps 1 and 2 of the call; the search API answers both implementations
\* with the same raw items, whatever the query
BothAssemble ==
    /\ run \in {1, 2}
    /\ \E reply \in BothSearchReplies :
         /\ StubAnswers("SEARCH", endpoint, reply)
         /\ AssembleWith({reply})
         /\ stub' = IF Len(log') > Len(log)
                    THEN StubWith("SEARCH", endpoint, reply)
                    ELSE stub
    /\ UNCHANGED <<run, first_call, fnvars, batchvars>>

\* the first call is over: find_entity_websites.find_best_website_for_entity
\* is called with the same arguments
CallOther ==
    /\ run = 1
    /\ pc = "done"
    /\ first_call' = [result |-> result, raised |-> raised, log |-> log]
    /\ run' = 2
    /\ impl' = "cli"
    /\ pc' = "assemble"
    /\ query' = Query("cli", entity_name, area_code)
    /\ domain_base' = EmptyStr
    /\ candidates' = EntryCandidates(candidates)
    /\ metadata' = [google_domains |-> << >>, guessed_urls |-> << >>]
    /\ idx' = 0
    /\ last_reply' = NoReply
    /\ outcome' = NoOutcome
    /\ result' = NoResult
    /\ raised' = FALSE
    /\ log' = << >>
    /\ probed' = << >>
    /\ search_outcome' = "pending"
    /\ search_hosts' = << >>
    /\ search_reply' = NoSearchReply
    /\ UNCHANGED <<entity_name, area_code, google_api_key, google_cx, try_tlds,
                   stub, fnvars, batchvars>>

NextBoth == BothAssemble \/ TwiceHeadProbe \/ TwiceGetFallback \/ CallOther

SpecBoth == InitBoth /\ [][NextBoth]_vars

-----------------------------------------------------------------------------
(* The helper functions, each called on its own *)

\* longest list of result items given to candidate_domains_from_search
MaxFnItems == 3

\* no call of find_best_website_for_entity is going on
CallIdle ==
    /\ entity_name = EmptyStr
    /\ area_code = EmptyStr
    /\ google_api_key = None
    /\ google_cx = None
    /\ try_tlds = << >>
    /\ pc = "idle"
    /\ query = EmptyStr
    /\ domain_base = EmptyStr
    /\ candidates = << >>
    /\ metadata = [google_domains |-> << >>, guessed_urls |-> << >>]
    /\ idx = 0
    /\ last_reply = NoReply
    /\ outcome = NoOutcome
    /\ result = NoResult
    /\ raised = FALSE
    /\ log = << >>
    /\ probed = << >>
    /\ search_outcome = "pending"
    /\ search_hosts = << >>
    /\ search_reply = NoSearchReply

\* the call state, but for the implementation the helper belongs to
callvars ==
    <<entity_name, area_code, google_api_key, google_cx, try_tlds, pc, query,
      domain_base, candidates, metadata, idx, last_reply, outcome, result,
      raised, log, probed, search_outcome, search_hosts, search_reply>>

\* the result items given to candidate_domains_from_search: links to the
\* same host with and without "www.", a second host, a deny-listed host, a
\* host only the CLI deny-lists, a link without host, no link, an empty link
FnItemSet ==
    {[link |-> <<"https://", "www.", "Acme", ".", "com", "/", "about">>],
     [link |-> <<"http://", "acme", ".", "com", "/">>],
     [link |-> <<"http://", "acme-plumbing", ".", "net", "/">>],
     [link |-> <<"https://", "www.", "yelp", ".", "com", "/", "biz">>],
     [link |-> <<"https://", "m", ".", "facebook", ".", "com", "/", "acme">>],
     [link |-> <<"not", " ", "a", " ", "url">>],
     [link |-> None],
     [link |-> EmptyStr]}

\* candidate_domains_from_search(items) is called
InitFnItems ==
    /\ impl \in Impls
    /\ fn = "candidate_domains_from_search"
    /\ fn_arg \in SeqsUpTo(FnItemSet, MaxFnItems)

\* longest entity name (in tokens) given to normalize_name_to_domain_base
MaxNameLen == 4

\* what a name is made of: words in upper and lower case, a suffix word in
\* both cases, digits, blank, comma, "&", "_" and a letter outside ASCII
NameTokens == {"Acme", "LLC", "co", "24", " ", ",", "&", "_", "é"}

\* the names the documentation gives as examples
NameExamples ==
    {<<"Acme", " ", "Plumbing", ",", " ", "LLC">>,
     <<"A", " ", "&", " ", "B", " ", "Corp">>}

\* normalize_name_to_domain_base(name) is called
InitFnName ==
    /\ impl = "cli"
    /\ fn = "normalize_name_to_domain_base"
    /\ fn_arg \in SeqsUpTo(NameTokens, MaxNameLen) \cup NameExamples

\* the parts of the URLs given to extract_domain: with a scheme or without,
\* with no authority, an authority that is nothing but "www.", hosts with
\* "www." in either case, with "www." twice, with a multi-label suffix, and
\* with what can follow an authority
UrlSchemes == {<<"https://">>, <<"http://">>, << >>}

UrlAuthorities ==
    {<< >>, <<"www.">>, <<"WWW.">>,
     <<"www.", "Acme", ".", "com">>,
     <<"WWW.", "acme", ".", "com">>,
     <<"Acme", ".", "com">>,
     <<"www.", "www.", "acme", ".", "com">>,
     <<"www.", "acme", ".", "co", ".", "uk">>}

UrlTails ==
    {<< >>, <<"/">>, <<"/", "page", "?", "x=1">>, <<"?", "x=1">>, <<"#", "top">>}

FnUrls ==
    {sch \o a \o t : sch \in UrlSchemes, a \in UrlAuthorities, t \in UrlTails}
    \cup {<<"not", " ", "a", " ", "url">>}

\* extract_domain(url) / extract_registered_domain(url) is called
InitFnUrl ==
    /\ impl \in Impls
    /\ fn = "extract_domain"
    /\ fn_arg \in FnUrls

InitFn ==
    /\ CallIdle
    /\ StubIdle
    /\ BatchIdle
    /\ fn_pc = "call"
    /\ fn_ret = << >>
    /\ (InitFnItems \/ InitFnName \/ InitFnUrl)

\* candidate_domains_from_search(items) returns
CallCandidateDomains ==
    /\ fn = "candidate_domains_from_search"
    /\ fn_pc = "call"
    /\ fn_ret' = candidate_domains_from_search(impl, fn_arg)
    /\ fn_pc' = "returned"
    /\ UNCHANGED <<impl, callvars, fn, fn_arg, stubvars, batchvars>>

\* normalize_name_to_domain_base(name) returns
CallNormalize ==
    /\ fn = "normalize_name_to_domain_base"
    /\ fn_pc = "call"
    /\ fn_ret' = normalize_name_to_domain_base(fn_arg)
    /\ fn_pc' = "returned"
    /\ UNCHANGED <<impl, callvars, fn, fn_arg, stubvars, batchvars>>

\* extract_domain(url) of google_search.py, extract_registered_domain(url)
\* of find_entity_websites.py, returns
CallExtractDomain ==
    /\ fn = "extract_domain"
    /\ fn_pc = "call"
    /\ fn_ret' = HostOf(impl, fn_arg)
    /\ fn_pc' = "returned"
    /\ UNCHANGED <<impl, callvars, fn, fn_arg, stubvars, batchvars>>

NextFn == CallCandidateDomains \/ CallNormalize \/ CallExtractDomain

SpecFn == InitFn /\ [][NextFn]_vars

-----------------------------------------------------------------------------
(* The batch drivers: main of find_entity_websites.py, the run loop of app.py *)

\* longest input file, in rows
MaxRows == 3

Drivers == {"cli", "app"}

\* the rows of the input file: the entity-name field is missing (None from
\* csv.DictReader, NaN in the DataFrame), blank, or a name with or without
\* blanks around it; the area field is given or missing
BatchRowSet ==
    {[name |-> None, area |-> <<"415">>],
     [name |-> <<" ">>, area |-> <<"415">>],
     [name |-> <<" ", "Acme", " ">>, area |-> <<"415">>],
     [name |-> <<"LLC">>, area |-> <<"415">>],
     [name |-> <<"LLC">>, area |-> None],
     [name |-> <<"LLC">>, area |-> <<"4", " ", "15">>],
     [name |-> <<"LLC">>, area |-> <<"4", "_", "15">>]}

\* the values of --limit / "Row limit": 0 is no limit
Limits == {0, 1, 2}

\* the text of a field: main takes '(row.get(col) or "")', the run loop
\* 'str(row.get(col, ""))', which is "nan" for a missing value
FieldText(drv, value) ==
    IF drv = "cli" THEN (IF Truthy(value) THEN value ELSE EmptyStr)
    ELSE (IF value = None THEN <<"nan">> ELSE value)

\* name = (row.get(args.name_col) or "").strip()
\* entity_name = str(row.get(name_col, "")).strip()
NameOfRow(drv, row) == Strip(FieldText(drv, row.name))

\* area = (row.get(args.area_col) or "").strip()
\* mailing_state = str(row.get(state_col, "")).strip() or "UNKNOWN"
AreaOfRow(drv, row) ==
    LET text == Strip(FieldText(drv, row.area))
    IN  IF drv = "app" /\ text = EmptyStr THEN <<"UNKNOWN">> ELSE text

\* the parameters of find_entity_websites.find_best_website_for_entity, and
\* those without a default
Parameters ==
    {"entity_name", "area_code", "google_api_key", "google_cx", "try_tlds",
     "timeout"}
RequiredParameters == {"entity_name", "area_code", "google_api_key", "google_cx"}

\* the keyword arguments a driver calls the resolver with
KeywordsOf(drv) ==
    IF drv = "cli"
    THEN {"entity_name", "area_code", "google_api_key", "google_cx", "timeout"}
    ELSE {"entity_name", "mailing_state", "google_api_key", "google_cx",
          "timeout"}

\* Python binds the call, or raises TypeError before the function runs
CallBinds(drv) ==
    KeywordsOf(drv) \subseteq Parameters /\ RequiredParameters \subseteq KeywordsOf(drv)

\* the rows a call of the resolver can return for a name and an area
ResolverRows(name, area) ==
    {[entity_name |-> name, area_code |-> area, method |-> m] :
       m \in {"guess", "none"}}

\* the key of a result in by_area: 'res.area_code or "UNKNOWN"'
AreaKey(res) ==
    IF res.area_code = EmptyStr THEN <<"UNKNOWN">> ELSE res.area_code

\* by_area.setdefault(key, []).append(res)
AddToGroup(groups, key, res) ==
    IF \E g \in 1..Len(groups) : groups[g].key = key
    THEN [g \in 1..Len(groups) |->
            IF groups[g].key = key
            THEN [key |-> key, items |-> Append(groups[g].items, res)]
            ELSE groups[g]]
    ELSE Append(groups, [key |-> key, items |-> <<res>>])

\* the tokens of [0-9A-Za-z_-] characters only
SafeTokens == {"415", "4", "15", "UNKNOWN", "_", "-"}

\* s without its leading tokens that are not in SafeTokens
RECURSIVE DropUnsafe(_)
DropUnsafe(s) ==
    IF s # << >> /\ Head(s) \notin SafeTokens THEN DropUnsafe(Tail(s)) ELSE s

\* re.sub(r"[^0-9A-Za-z_-]+", "_", area_code or "UNKNOWN"): every run of
\* other characters becomes one "_"
RECURSIVE SafeArea(_)
SafeArea(s) ==
    IF s = << >> THEN << >>
    ELSE IF Head(s) \in SafeTokens THEN <<Head(s)>> \o SafeArea(Tail(s))
    ELSE <<"_">> \o SafeArea(DropUnsafe(Tail(s)))

\* args.out, the master file
MasterPath == <<"master_results.csv">>

\* os.path.join(out_dir, f"results_area_{safe_area}.csv")
AreaPath(key) ==
    <<"by_area_code", "/", "results_area_">>
    \o SafeArea(IF key = EmptyStr THEN <<"UNKNOWN">> ELSE key) \o <<".csv">>

\* write_csv(path, rows): open(path, "w") replaces a file of that path
WriteCsv(fs, path, rs) ==
    {f \in fs : f.path # path} \cup {[path |-> path, rows |-> rs]}

\* "for area_code, items in by_area.items(): write_csv(...)"
RECURSIVE WriteGroups(_, _)
WriteGroups(groups, fs) ==
    IF groups = << >> THEN fs
    ELSE WriteGroups(Tail(groups),
                     WriteCsv(fs, AreaPath(Head(groups).key), Head(groups).items))

InitBatch ==
    /\ impl = "cli"
    /\ CallIdle
    /\ FnIdle
    /\ StubIdle
    /\ driver \in Drivers
    /\ rows \in SeqsUpTo(BatchRowSet, MaxRows)
    /\ limit \in Limits
    /\ row_i = 1
    /\ rows_out = << >>
    /\ resolver_calls = << >>
    /\ batch_pc = "loop"
    /\ by_area = << >>
    /\ files = {}
    /\ calls = << >>

\* the rows the loop gets to: all of them, or the first limit rows
MoreRows == row_i <= Len(rows) /\ (limit = 0 \/ row_i <= limit)

\* one iteration of the loop over the rows: a row without name is skipped,
\* for any other row the resolver is called and its result appended
BatchRow ==
    /\ batch_pc = "loop"
    /\ MoreRows
    /\ LET name == NameOfRow(driver, rows[row_i])
           area == AreaOfRow(driver, rows[row_i])
       IN  IF name = EmptyStr
           THEN \* "if not name: continue"
                /\ row_i' = row_i + 1
                /\ UNCHANGED <<rows_out, resolver_calls, batch_pc, by_area>>
           ELSE IF CallBinds(driver)
                THEN \E res \in ResolverRows(name, area) :
                       /\ resolver_calls' = Append(resolver_calls, name)
                       /\ rows_out' = Append(rows_out, res)
                       /\ by_area' = IF driver = "cli"
                                     THEN AddToGroup(by_area, AreaKey(res), res)
                                     ELSE by_area
                       /\ row_i' = row_i + 1
                       /\ UNCHANGED batch_pc
                ELSE \* TypeError leaves the loop
                     /\ batch_pc' = "raised"
                     /\ UNCHANGED <<row_i, rows_out, resolver_calls, by_area>>
    /\ UNCHANGED <<impl, callvars, fnvars, stubvars, driver, rows, limit, files,
                   calls>>

\* the loop is over: no row left, or the limit reached.  main then writes
\* the master file and one file for every key of by_area (the downloads
\* the app offers are not files and are left out)
BatchEnd ==
    /\ batch_pc = "loop"
    /\ ~MoreRows
    /\ batch_pc' = "done"
    /\ files' = IF driver = "cli"
                THEN WriteGroups(by_area, WriteCsv(files, MasterPath, rows_out))
                ELSE files
    /\ UNCHANGED <<impl, callvars, fnvars, stubvars, driver, rows, limit,
                   row_i, rows_out, resolver_calls, by_area, calls>>

NextBatch == BatchRow \/ BatchEnd

SpecBatch == InitBatch /\ [][NextBatch]_vars

-----------------------------------------------------------------------------
(* main followed call by call, and then one of its calls made alone *)

\* longest input file
MaxRunRows == 2

\* number of TLDs of the default try_tlds that are kept
MaxRunTlds == 1

\* try_tlds: Iterable[str] = ("com", "org", "net"), which main does not pass
DefaultTlds == <<"com", "org", "net">>

\* the network of a run: a request raises or is answered at the requested
\* URL, a HEAD with 200 or 400, a GET with 200
RunReplies(url, statuses) ==
    {x \in Replies(url) :
       x.raised \/ (x.status_code \in statuses /\ x.url = url)}

RunReceived(url) ==
    {Received("HEAD", reply) : reply \in RunReplies(url, {200, 400})}
    \cup {Received("GET", reply) : reply \in RunReplies(url, {200})}

\* args.google_api_key and args.google_cx: both given, or the second missing
RunCredentials == {c \in Credentials : c[1] = <<"KEY">>}

InitRun ==
    /\ impl = "cli"
    /\ driver = "cli"
    /\ \E c \in RunCredentials : google_api_key = c[1] /\ google_cx = c[2]
    /\ try_tlds = SubSeq(DefaultTlds, 1, MaxRunTlds)
    /\ entity_name = EmptyStr
    /\ area_code = EmptyStr
    /\ pc = "idle"
    /\ query = EmptyStr
    /\ domain_base = EmptyStr
    /\ candidates = << >>
    /\ metadata = [google_domains |-> << >>, guessed_urls |-> << >>]
    /\ idx = 0
    /\ last_reply = NoReply
    /\ outcome = NoOutcome
    /\ result = NoResult
    /\ raised = FALSE
    /\ log = << >>
    /\ probed = << >>
    /\ search_outcome = "pending"
    /\ search_hosts = << >>
    /\ search_reply = NoSearchReply
    /\ FnIdle
    /\ stub = {}
    /\ run = 1
    /\ first_call = NoFirst
    /\ rows \in SeqsUpTo(RunRowSet, MaxRunRows)
    /\ limit = 0
    /\ row_i = 1
    /\ rows_out = << >>
    /\ resolver_calls = << >>
    /\ batch_pc = "loop"
    /\ by_area = << >>
    /\ files = {}
    /\ calls = << >>

\* find_best_website_for_entity is entered with a name and an area: its
\* locals are created
EnterWith(name, area, prev) ==
    /\ entity_name' = name
    /\ area_code' = area
    /\ pc' = "assemble"
    /\ query' = Query(impl, name, area)
    /\ domain_base' = EmptyStr
    /\ candidates' = EntryCandidates(prev)
    /\ metadata' = [google_domains |-> << >>, guessed_urls |-> << >>]
    /\ idx' = 0
    /\ last_reply' = NoReply
    /\ outcome' = NoOutcome
    /\ result' = NoResult
    /\ raised' = FALSE
    /\ log' = << >>
    /\ probed' = << >>
    /\ search_outcome' = "pending"
    /\ search_hosts' = << >>
    /\ search_reply' = NoSearchReply

\* the head of one iteration of main's loop: a row without name is skipped,
\* for any other row the resolver is called
RunRow ==
    /\ run = 1
    /\ batch_pc = "loop"
    /\ pc = "idle"
    /\ MoreRows
    /\ LET name == NameOfRow(driver, rows[row_i])
           area == AreaOfRow(driver, rows[row_i])
       IN  IF name = EmptyStr
           THEN /\ row_i' = row_i + 1
                /\ UNCHANGED <<callvars, resolver_calls, batch_pc>>
           ELSE /\ EnterWith(name, area, candidates)
                /\ resolver_calls' = Append(resolver_calls, name)
                /\ batch_pc' = "call"
                /\ UNCHANGED <<row_i, google_api_key, google_cx, try_tlds>>
    /\ UNCHANGED <<impl, fnvars, stubvars, driver, rows, limit, rows_out,
                   by_area, files, calls>>

\* what the search API does in a run: the request fails, the body is not
\* JSON, or it answers with no items or with one
RunSearchReplies ==
    [kind : {"transport", "bad_json"}, items : {<< >>}]
    \cup [kind : {"items"}, items : SeqsUpTo(BothItemSet, 1)]

\* steps 1 and 2 of the call; the search API answers a query as it answered
\* it before
RunAssemble ==
    /\ run \in {1, 2}
    /\ \E reply \in RunSearchReplies :
         \E q \in {SentQuery(impl, entity_name, area_code, query)} :
           /\ StubAnswers("SEARCH", q, reply)
           /\ AssembleWith({reply})
           /\ stub' = IF Len(log') > Len(log)
                      THEN StubWith("SEARCH", q, reply)
                      ELSE stub
    /\ UNCHANGED <<run, first_call, fnvars, batchvars>>

\* requests.head(url), answered as the same request was answered before
RunHeadProbe ==
    /\ TwiceHeadProbe
    /\ last_reply' \in RunReceived(candidates[idx].url)

\* requests.get(url), answered as the same request was answered before
RunGetFallback ==
    /\ TwiceGetFallback
    /\ last_reply' \in RunReceived(candidates[idx].url)

\* the call returns to the loop, or its exception leaves main:
\* "rows_out.append(res); by_area.setdefault(...).append(res)"
RunReturn ==
    /\ run = 1
    /\ batch_pc = "call"
    /\ pc = "done"
    /\ pc' = "idle"
    /\ calls' = Append(calls, [entity_name |-> entity_name,
                               area_code |-> area_code,
                               result |-> result, raised |-> raised,
                               log |-> log])
    /\ IF raised
       THEN /\ batch_pc' = "raised"
            /\ UNCHANGED <<row_i, rows_out, by_area>>
       ELSE /\ rows_out' = Append(rows_out, result)
            /\ by_area' = AddToGroup(by_area, AreaKey(result), result)
            /\ row_i' = row_i + 1
            /\ batch_pc' = "loop"
    /\ UNCHANGED <<impl, entity_name, area_code, google_api_key, google_cx,
                   try_tlds, query, domain_base, candidates, metadata, idx,
                   last_reply, outcome, result, raised, log, probed,
                   search_outcome, search_hosts, search_reply, fnvars,
                   stubvars, driver, rows, limit, resolver_calls, files>>

\* main is over; the resolver is now called alone, in a new process, with
\* the arguments of call k of the batch, against the same network
CallAlone ==
    /\ run = 1
    /\ batch_pc = "done"
    /\ \E k \in 1..Len(calls) :
         /\ row_i' = k
         /\ EnterWith(calls[k].entity_name, calls[k].area_code, << >>)
    /\ run' = 2
    /\ batch_pc' = "alone"
    /\ UNCHANGED <<impl, google_api_key, google_cx, try_tlds, stub, first_call,
                   fnvars, driver, rows, limit, rows_out, resolver_calls,
                   by_area, files, calls>>

NextRun ==
    \/ RunRow
    \/ RunAssemble
    \/ RunHeadProbe
    \/ RunGetFallback
    \/ RunReturn
    \/ BatchEnd
    \/ CallAlone

SpecRun == InitRun /\ [][NextRun]_vars

-----------------------------------------------------------------------------
(* Properties *)

Returned == pc = "done" /\ ~raised

\* the indices of the log that are liveness requests
ProbeIdx == {i \in 1..Len(log) : log[i].kind \in {"HEAD", "GET"}}

\* the check of the last probed candidate has returned
CheckReturned == probed # << >> /\ pc # "get"

\* the candidate the last returned check was about
LastPos == probed[Len(probed)].pos

\* C1: first-live-wins.  Candidates are probed strictly in assembled order:
\* the k-th check is that of candidate k, every request goes to the URL of
\* its candidate and requests never go back to an earlier candidate; only
\* the last check made can be live; once a check is live the call is over,
\* no request was made to a later candidate and the row returned carries
\* the method of that candidate and the URL its check reported.
C1_FirstLiveWins ==
    /\ \A k \in 1..Len(probed) : probed[k].pos = k
    /\ \A k \in 1..(Len(probed) - 1) : ~probed[k].live
    /\ \A i \in ProbeIdx :
         /\ log[i].pos \in 1..Len(candidates)
         /\ log[i].url = candidates[log[i].pos].url
         /\ log[i].pos \in {Len(probed), Len(probed) + 1}
            \/ (log[i].pos < Len(probed) /\ ~probed[log[i].pos].live)
         /\ i > 1 => log[i - 1].pos <= log[i].pos
    /\ \A k \in 1..Len(probed) : \E i \in ProbeIdx : log[i].pos = k
    /\ (probed # << >> /\ probed[Len(probed)].live) =>
         /\ pc = "done"
         /\ \A i \in ProbeIdx : log[i].pos <= LastPos
         /\ ~raised =>
              /\ result.method = candidates[LastPos].method
              /\ result.best_url = outcome.final_url
              /\ outcome.final_url \in FinalUrls(candidates[LastPos].url)

\* a live candidate in the middle of the list: earlier ones were probed and
\* not live, later ones exist and were never probed
C1_Witness ==
    /\ Returned
    /\ result.method # "none"
    /\ Len(probed) >= 3
    /\ Len(probed) < Len(candidates)

\* the URL "{scheme}{host}/"
UrlOf(scheme, host) == <<scheme>> \o host \o <<"/">>

\* the hosts of the candidate list, in order: the hosts the search provider
\* returned, then base.tld for every configured TLD
ExpectedHosts ==
    search_hosts
    \o (IF domain_base = EmptyStr THEN << >>
        ELSE [k \in 1..Len(try_tlds) |-> domain_base \o <<".", try_tlds[k]>>])

\* C2: candidate ordering.  Once assembled, the candidate list holds two
\* entries per host, https:// then http://, the hosts being the search
\* hosts in the provider's order followed by the guessed domains in the
\* configured TLD order; so every "google" candidate precedes every "guess"
\* candidate, and the candidates are checked in that order.
C2_CandidateOrder ==
    pc # "assemble" /\ ~raised =>
      LET hosts == ExpectedHosts
          nsearch == Len(search_hosts)
      IN  /\ Len(candidates) = 2 * Len(hosts)
          /\ \A k \in 1..Len(hosts) :
               /\ candidates[2 * k - 1].url = UrlOf("https://", hosts[k])
               /\ candidates[2 * k].url = UrlOf("http://", hosts[k])
               /\ candidates[2 * k - 1].method = candidates[2 * k].method
               /\ candidates[2 * k].method =
                    IF k <= nsearch THEN "google" ELSE "guess"
          /\ \A i, j \in 1..Len(candidates) :
               (candidates[i].method = "google" /\ candidates[j].method = "guess")
                 => i < j
          /\ \A k \in 1..Len(probed) : probed[k].pos = k

\* two search hosts and two different TLDs, and all eight candidates checked
C2_Witness ==
    /\ Returned
    /\ Len(search_hosts) = 2
    /\ Len(try_tlds) = 2
    /\ try_tlds[1] # try_tlds[2]
    /\ Len(candidates) = 8
    /\ Len(probed) = 8

\* C3: the verdict of looks_like_valid_website.  When a check has returned,
\* it reports live exactly if its last request (the HEAD probe, or the GET
\* fallback when one was made) got a response with 200 <= status < 400, and
\* it reports that response's status and URL; when that request raised, the
\* check returned exactly (False, None, None).
C3_LiveIffResponseInRange ==
    CheckReturned /\ ~raised =>
      /\ outcome.live <=>
           (/\ ~last_reply.raised
            /\ 200 <= last_reply.status_code
            /\ last_reply.status_code < 400)
      /\ ~last_reply.raised =>
           /\ outcome.status = last_reply.status_code
           /\ outcome.final_url = last_reply.url
      /\ last_reply.raised =>
           outcome = [live |-> FALSE, status |-> StatusNone, final_url |-> None]
      /\ probed[Len(probed)].live = outcome.live

\* a GET fallback that raised after the HEAD probe had got a response
C3_Witness ==
    /\ CheckReturned
    /\ last_reply.kind = "GET"
    /\ last_reply.raised
    /\ ~outcome.live

\* C4: HEAD-then-GET.  The requests made for one candidate are a HEAD, or a
\* HEAD followed at once by a GET; the GET is about to be made exactly when
\* the HEAD probe got a response with status >= 400; a HEAD that raised or
\* got a status < 400 ends the check of that candidate with its own result.
C4_HeadThenGet ==
    /\ \A i \in ProbeIdx :
         /\ log[i].kind = "GET" =>
              /\ i > 1
              /\ log[i - 1].kind = "HEAD"
              /\ log[i - 1].pos = log[i].pos
         /\ log[i].kind = "HEAD" =>
              log[i].pos = IF i = 1 THEN 1 ELSE log[i - 1].pos + 1
    /\ ProbeIdx # {} => log[Len(log)].kind = last_reply.kind
    /\ ~raised =>
         (pc = "get" <=>
            (/\ last_reply.kind = "HEAD"
             /\ ~last_reply.raised
             /\ last_reply.status_code >= 400))
    /\ (last_reply.kind = "HEAD" /\ pc # "get" /\ ~raised) =>
         /\ Len(probed) = log[Len(log)].pos
         /\ last_reply.raised \/ last_reply.status_code < 400
         /\ outcome.status = last_reply.status_code

\* a candidate whose HEAD got a status >= 400 and whose GET was then made
C4_Witness ==
    /\ last_reply.kind = "GET"
    /\ Len(log) >= 2
    /\ log[Len(log)].kind = "GET"
    /\ log[Len(log) - 1].kind = "HEAD"

\* C5: no network failure leaves the call.  Whatever the search call and
\* the requests of the checks do, no exception propagates, and the call
\* ends with a ResultRow; a check whose request raised counts as not live,
\* and the loop goes on with the next candidate (the "none" row is returned
\* only after the last candidate).
C5_NeverRaises ==
    /\ ~raised
    /\ pc = "done" => result # NoResult /\ result.method \in {"google", "guess", "none"}
    /\ pc # "done" => result = NoResult
    /\ (CheckReturned /\ last_reply.raised) =>
         /\ ~probed[Len(probed)].live
         /\ IF LastPos < Len(candidates)
            THEN pc = "head" /\ idx = LastPos + 1
            ELSE pc = "done" /\ result.method = "none"
    /\ (pc = "done" /\ result.method = "none") => Len(probed) = Len(candidates)

\* the search call failed, a check raised on its HEAD, the next candidate was
\* checked and the call returned
C5_Witness ==
    /\ Returned
    /\ search_outcome = "raised"
    /\ \E i \in ProbeIdx :
         /\ log[i].kind = "HEAD"
         /\ i < Len(log)
         /\ log[i + 1].kind = "HEAD"
    /\ last_reply.raised
    /\ result.method = "none"

\* the row returned by a guess-only call (credentials absent) for the same
\* name, hint and TLD list, when its checks behave as the checks made here
GuessOnlyRow ==
    LET guessed == IF domain_base = EmptyStr THEN << >>
                   ELSE [k \in 1..Len(try_tlds) |->
                           domain_base \o <<".", try_tlds[k]>>]
        meta == [google_domains |-> << >>, guessed_urls |-> guessed]
        q == Query(impl, entity_name, area_code)
        won == probed # << >> /\ probed[Len(probed)].live
        host == guessed[(LastPos + 1) \div 2]
        url == UrlOf(IF LastPos % 2 = 1 THEN "https://" ELSE "http://", host)
    IN  IF won
        THEN LiveRow(impl, entity_name, area_code, q, meta,
                     [method |-> "guess", url |-> url], outcome)
        ELSE NoneRow(entity_name, area_code, q, meta)

\* C6: a failed search degrades to guess-only.  When the search call raised,
\* the call does not raise, the recorded search-host list is empty, every
\* candidate (so every probe) is a guess, two per configured TLD, and the
\* row returned is the row of the guess-only call.
C6_SearchFailureIsGuessOnly ==
    search_outcome = "raised" =>
      /\ ~raised
      /\ search_hosts = << >>
      /\ metadata.google_domains = << >>
      /\ \A k \in 1..Len(candidates) : candidates[k].method = "guess"
      /\ Len(candidates) = 2 * Len(metadata.guessed_urls)
      /\ \A i \in ProbeIdx : candidates[log[i].pos].method = "guess"
      /\ pc = "done" => result = GuessOnlyRow

\* the search call raised and the second guess was live
C6_Witness ==
    /\ Returned
    /\ search_outcome = "raised"
    /\ result.method = "guess"
    /\ Len(probed) >= 2

\* C7: shape of the row.  The method is "google", "guess" or "none", and it
\* is "none" exactly if best_domain, best_url and best_http_status are all
\* the empty string.
C7_NoneIffBestEmpty ==
    Returned =>
      /\ result.method \in {"google", "guess", "none"}
      /\ result.method = "none" <=>
           (/\ result.best_domain = EmptyStr
            /\ result.best_url = EmptyStr
            /\ result.best_http_status = EmptyStr)
      /\ result.method # "none" =>
           (/\ result.best_domain # EmptyStr
            /\ result.best_url # EmptyStr
            /\ result.best_http_status # EmptyStr)

\* a "none" row after candidates were checked
C7_Witness ==
    /\ Returned
    /\ result.method = "none"
    /\ Len(probed) >= 2

\* C8: the best fields of a row returned by finder.py with a method other
\* than "none": best_url is the final URL the winning check reported,
\* best_http_status is the decimal string of its status, which lies in
\* [200, 400), and best_domain is extract_domain(best_url).
C8_BestFieldsOfFinder ==
    (impl = "finder" /\ Returned /\ result.method # "none") =>
      /\ result.best_url = outcome.final_url
      /\ result.best_http_status = <<ToString(outcome.status)>>
      /\ 200 <= outcome.status /\ outcome.status < 400
      /\ result.best_domain = extract_domain(result.best_url)

\* the audit structure of the call: the search hosts, then every guess
ExpectedAudit ==
    [google_domains |-> search_hosts,
     guessed_urls |->
       IF domain_base = EmptyStr THEN << >>
       ELSE [k \in 1..Len(try_tlds) |-> domain_base \o <<".", try_tlds[k]>>]]

\* C9: the audit structure.  From the end of the assembly on (so before any
\* check) metadata lists the hosts the search provider returned, in order,
\* and base.tld for every configured TLD, in order; no check changes it, and
\* the row returned carries it whatever its method.
C9_AuditFixedBeforeChecks ==
    (pc # "assemble" /\ ~raised) =>
      LET audit == ExpectedAudit
      IN  /\ metadata = audit
          /\ pc = "done" => result.other_candidates = json_dumps(audit)

\* a row with the search method whose audit structure lists a search host
\* and two guesses, none of which was checked
C9_Witness ==
    /\ Returned
    /\ result.method = "google"
    /\ Len(metadata.google_domains) >= 1
    /\ Len(metadata.guessed_urls) = 2
    /\ Len(probed) <= 2

\* the number of HTTP requests made to URL u
RequestsTo(u) == Cardinality({i \in ProbeIdx : log[i].url = u})

\* the number of positions of the candidate list that hold URL u
Occurrences(u) == Cardinality({p \in 1..Len(candidates) : candidates[p].url = u})

SearchCalls == Cardinality({i \in 1..Len(log) : log[i].kind = "SEARCH"})

\* C10 as stated: every URL receives at most two HTTP requests, and the
\* search provider is called at most once.
C10_AtMostTwoPerUrl ==
    /\ SearchCalls <= 1
    /\ \A i \in ProbeIdx : RequestsTo(log[i].url) <= 2

\* C10 amended: every candidate (position of the candidate list) receives
\* at most two requests, a HEAD and then at most one GET, and no request
\* goes back to an earlier candidate; the search provider is called at most
\* once; a URL that stands at k positions of the list receives at most 2k
\* requests.
C10_AtMostTwoPerCandidate ==
    /\ SearchCalls <= 1
    /\ \A i \in ProbeIdx :
         /\ log[i].pos \in 1..Len(candidates)
         /\ i > 1 => log[i - 1].pos <= log[i].pos
         /\ (i > 1 /\ log[i - 1].pos = log[i].pos) =>
              /\ log[i - 1].kind = "HEAD"
              /\ log[i].kind = "GET"
              /\ i > 2 => log[i - 2].pos < log[i].pos
    /\ \A u \in {candidates[p].url : p \in 1..Len(candidates)} :
         RequestsTo(u) <= 2 * Occurrences(u)

\* a URL that is both a search candidate and a guess, and got four requests
C10_Witness ==
    /\ SearchCalls = 1
    /\ \E i \in ProbeIdx :
         /\ RequestsTo(log[i].url) = 4
         /\ Occurrences(log[i].url) = 2

\* the string '"{entity_name}" official website {area_code}' with leading
\* and trailing whitespace trimmed
OfficialQuery ==
    LET raw == <<"\"">> \o entity_name
               \o <<"\"", " ", "official", " ", "website", " ">> \o area_code
        first == CHOOSE i \in 1..Len(raw) :
                   raw[i] # " " /\ \A j \in 1..(i - 1) : raw[j] = " "
        last == CHOOSE i \in 1..Len(raw) :
                  raw[i] # " " /\ \A j \in (i + 1)..Len(raw) : raw[j] = " "
    IN  SubSeq(raw, first, last)

\* C11: the recorded query.  Every row finder.py returns, whatever its
\* method and whether the search was made, failed or was skipped, carries in
\* search_query the string '"{entity_name}" official website {area_code}'
\* trimmed of leading and trailing whitespace, and every search request the
\* call made was sent that same string as q.
C11_QueryRecorded ==
    impl = "finder" =>
      /\ query = OfficialQuery
      /\ \A i \in 1..Len(log) : log[i].kind = "SEARCH" => log[i].url = OfficialQuery
      /\ Returned => result.search_query = OfficialQuery

\* finder.py returned the "none" row after a failed search, for a row without
\* area code (the trailing blank of the format is trimmed)
C11_Witness ==
    /\ impl = "finder"
    /\ Returned
    /\ area_code = EmptyStr
    /\ SearchCalls = 1
    /\ search_outcome = "raised"
    /\ result.method = "none"
    /\ result.search_query = <<"\"", "LLC", "\"", " ", "official", " ", "website">>

\* one of the two search tokens is missing (None) or empty
CredentialsAbsent ==
    \/ google_api_key = None \/ google_api_key = EmptyStr
    \/ google_cx = None \/ google_cx = EmptyStr

\* C12: guess-only mode.  When a search token is missing or empty, the call
\* never makes a search request, no candidate has the method "google", the
\* recorded search-host list is empty, every request made is the probe of a
\* "guess" candidate, and a row returned has the method "guess" or "none".
C12_NoCredentialsNoSearch ==
    CredentialsAbsent =>
      /\ SearchCalls = 0
      /\ search_outcome \in {"pending", "skipped"}
      /\ search_hosts = << >>
      /\ metadata.google_domains = << >>
      /\ \A k \in 1..Len(candidates) : candidates[k].method = "guess"
      /\ \A i \in 1..Len(log) :
           /\ log[i].kind \in {"HEAD", "GET"}
           /\ candidates[log[i].pos].method = "guess"
      /\ Returned =>
           /\ result.method \in {"guess", "none"}
           /\ result.other_candidates =
                json_dumps([google_domains |-> << >>,
                            guessed_urls |-> metadata.guessed_urls])

\* the API key is given but the engine id is missing; guesses were probed
\* and the call returned
C12_Witness ==
    /\ google_api_key = <<"KEY">>
    /\ google_cx = None
    /\ Returned
    /\ Len(probed) >= 2
    /\ Len(log) >= 2

\* the JSON text of an audit structure with both lists empty
EmptyAuditJson ==
    <<"{", "\"google_domains\": ", "[", "]", ", ", "\"guessed_urls\": ", "[",
      "]", "}">>

\* C13: an empty normalized name.  When the entity name normalizes to the
\* empty string, the assembled call has no "guess" candidate and an empty
\* guessed-host list, so only search hosts are ever probed; when a search
\* token is absent as well, there is no candidate, no request of any kind is
\* made, and the call returns at once the row with method "none", empty
\* best_domain, best_url and best_http_status, and an audit structure whose
\* two lists are empty.
C13_EmptyBaseNoGuess ==
    (pc # "assemble" /\ normalize_name_to_domain_base(entity_name) = EmptyStr) =>
      /\ ~raised
      /\ metadata.guessed_urls = << >>
      /\ \A k \in 1..Len(candidates) : candidates[k].method # "guess"
      /\ Len(candidates) = 2 * Len(metadata.google_domains)
      /\ CredentialsAbsent =>
           /\ candidates = << >>
           /\ log = << >>
           /\ probed = << >>
           /\ pc = "done"
           /\ result.method = "none"
           /\ result.best_domain = EmptyStr
           /\ result.best_url = EmptyStr
           /\ result.best_http_status = EmptyStr
           /\ result.other_candidates = EmptyAuditJson

\* the name "LLC" without credentials and with two TLDs configured: the call
\* is over without a request
C13_Witness ==
    /\ entity_name = <<"LLC">>
    /\ CredentialsAbsent
    /\ Len(try_tlds) = 2
    /\ pc = "done"
    /\ log = << >>
    /\ result.method = "none"

\* C14 as stated: a check that returned live reports a status in
\* [200, 400), and a check that returned not live reports no status (None)
\* or a status >= 400.
C14_NotLiveIsNoneOrError ==
    (CheckReturned /\ ~raised) =>
      /\ outcome.live => (200 <= outcome.status /\ outcome.status < 400)
      /\ ~outcome.live => (outcome.status = StatusNone \/ outcome.status >= 400)

\* C14 amended: a check that returned live reports a status in [200, 400);
\* a check that returned not live reports no status (None), exactly when
\* its last request raised, or the status of its last response, which is
\* outside [200, 400): at least 400, or below 200.
C14_NotLiveIsOutsideRange ==
    (CheckReturned /\ ~raised) =>
      /\ outcome.live =>
           /\ outcome.status # StatusNone
           /\ 200 <= outcome.status /\ outcome.status < 400
      /\ ~outcome.live =>
           /\ outcome.status = StatusNone <=> last_reply.raised
           /\ outcome.status # StatusNone =>
                /\ outcome.status = last_reply.status_code
                /\ outcome.status >= 400 \/ outcome.status < 200

\* a HEAD probe answered with a status below 200: not live, no GET made
C14_Witness ==
    /\ CheckReturned
    /\ ~outcome.live
    /\ outcome.status # StatusNone
    /\ outcome.status < 200
    /\ last_reply.kind = "HEAD"

\* candidate_domains_from_search has returned
FnItemsReturned == fn = "candidate_domains_from_search" /\ fn_pc = "returned"

\* item i of the argument has a link with a host that is not deny-listed
FnItemKept(i) ==
    LET link == fn_arg[i].link
    IN  /\ link # None
        /\ link # EmptyStr
        /\ HostOf(impl, link) # None
        /\ HostOf(impl, link) \notin DenyList(impl)

\* the first item of the argument whose host is h
FnFirstItem(h) ==
    CHOOSE i \in 1..Len(fn_arg) :
      /\ FnItemKept(i) /\ HostOf(impl, fn_arg[i].link) = h
      /\ \A j \in 1..(i - 1) :
           ~(FnItemKept(j) /\ HostOf(impl, fn_arg[j].link) = h)

\* C15: the hosts of a result list.  candidate_domains_from_search returns
\* exactly the hosts of the items that have a link with a host outside the
\* deny-list of its implementation: every host returned is the host of such
\* an item, the host of every such item is returned, no host is returned
\* twice, and the hosts are in the order of their first items; of a list
\* without such an item it returns the empty list.
C15_HostsOfItems ==
    FnItemsReturned =>
      /\ \A k \in 1..Len(fn_ret) :
           \E i \in 1..Len(fn_arg) :
             FnItemKept(i) /\ HostOf(impl, fn_arg[i].link) = fn_ret[k]
      /\ \A i \in 1..Len(fn_arg) :
           FnItemKept(i) =>
             \E k \in 1..Len(fn_ret) : fn_ret[k] = HostOf(impl, fn_arg[i].link)
      /\ \A k, l \in 1..Len(fn_ret) : fn_ret[k] = fn_ret[l] => k = l
      /\ \A k, l \in 1..Len(fn_ret) :
           k < l => FnFirstItem(fn_ret[k]) < FnFirstItem(fn_ret[l])

\* two hosts returned for three items: the second host comes between two
\* links to the first host
C15_Witness ==
    /\ FnItemsReturned
    /\ Len(fn_arg) = 3
    /\ fn_arg[1].link = <<"https://", "www.", "Acme", ".", "com", "/", "about">>
    /\ fn_arg[3].link = <<"http://", "acme", ".", "com", "/">>
    /\ fn_ret = <<<<"acme", ".", "com">>, <<"acme-plumbing", ".", "net">>>>

\* normalize_name_to_domain_base has returned
FnNameReturned == fn = "normalize_name_to_domain_base" /\ fn_pc = "returned"

\* the tokens that hold a character other than a lower-case ASCII letter or
\* a digit: upper case, whitespace, punctuation, "_", other alphabets
NotLowerAlnum ==
    {"Acme", "LLC", "Plumbing", "A", "B", "Corp", " ", ",", "&", "_", "é"}

\* C16: the alphabet of a domain base.  For every name, the empty name
\* included, normalize_name_to_domain_base returns a string of lower-case
\* ASCII letters and digits only: no upper-case letter, no whitespace, no
\* punctuation, no underscore and no letter of another alphabet is left; of
\* the empty name it returns the empty string.
C16_LowerAlnumOnly ==
    FnNameReturned =>
      /\ \A k \in 1..Len(fn_ret) :
           fn_ret[k] \in AlnumTokens /\ fn_ret[k] \notin NotLowerAlnum
      /\ fn_arg = EmptyStr => fn_ret = EmptyStr

\* the name "Acme_24é": the underscore and the "é" are deleted, the rest is
\* lower-cased
C16_Witness ==
    /\ FnNameReturned
    /\ fn_arg = <<"Acme", "_", "24", "é">>
    /\ fn_ret = <<"acme", "24">>

\* the words a name is written with (ASCII letters and digits)
NameWords == {"Acme", "LLC", "co", "24", "Plumbing", "A", "B", "Corp"}

\* whitespace and punctuation between the words of a name
NameSeparators == {" ", ",", "&", "_"}

\* the name is given as words separated by whitespace or punctuation: no
\* two words stand next to each other
NameOfWords(name) ==
    /\ \A i \in 1..Len(name) : name[i] \in NameWords \cup NameSeparators
    /\ \A i \in 1..(Len(name) - 1) :
         ~(name[i] \in NameWords /\ name[i + 1] \in NameWords)

\* the lower-cased words of the name that are not suffix words, in order,
\* with "and" for every "&"
RECURSIVE WordsConcatenated(_)
WordsConcatenated(name) ==
    IF name = << >> THEN << >>
    ELSE LET t == LowerTok(Head(name))
             rest == WordsConcatenated(Tail(name))
         IN  IF Head(name) = "&" THEN <<"and">> \o rest
             ELSE IF Head(name) \notin NameWords THEN rest
             ELSE IF \E k \in 1..Len(suffixes) : suffixes[k] = t THEN rest
             ELSE <<t>> \o rest

\* C17: the suffix words.  For a name given as words separated by
\* whitespace or punctuation, normalize_name_to_domain_base returns the
\* lower-cased words that are not suffix words (llc, inc, corp, co, company,
\* ltd, limited, pllc, pc, partners, in any case), in order and joined
\* without separator, with "and" in the place of every "&"
\* ("Acme Plumbing, LLC" gives "acmeplumbing", "A & B Corp" gives "aandb",
\* "LLC" gives ""); a suffix glued to a word ("AcmeLLC") is kept.
C17_SuffixWordsRemoved ==
    FnNameReturned =>
      /\ NameOfWords(fn_arg) => fn_ret = WordsConcatenated(fn_arg)
      /\ fn_arg = <<"Acme", " ", "Plumbing", ",", " ", "LLC">> =>
           fn_ret = <<"acme", "plumbing">>
      /\ fn_arg = <<"A", " ", "&", " ", "B", " ", "Corp">> =>
           fn_ret = <<"a", "and", "b">>
      /\ fn_arg = <<"LLC">> => fn_ret = EmptyStr
      /\ fn_arg = <<"Acme", "LLC">> => fn_ret = <<"acme", "llc">>

\* extract_domain has returned
FnUrlReturned == fn = "extract_domain" /\ fn_pc = "returned"

\* the authority lower-cased, one leading "www." removed
HostOfAuthority(a) ==
    LET low == [i \in 1..Len(a) |-> LowerTok(a[i])]
    IN  IF Len(low) > 0 /\ low[1] = "www." THEN SubSeq(low, 2, Len(low))
        ELSE low

\* C18: the host of a URL.  extract_domain (extract_registered_domain in
\* the CLI) never returns the empty string; of a URL without authority
\* (no scheme, or nothing between the scheme and the path) it returns None;
\* of any other URL it returns the authority in lower case with one leading
\* "www." removed and nothing else changed: a second "www." and a
\* multi-label suffix stay.  (Of an authority that is nothing but "www." no
\* host is left, so only the first sentence applies to it.)
C18_HostOfUrl ==
    FnUrlReturned =>
      /\ fn_ret # EmptyStr
      /\ \A sch \in UrlSchemes, a \in UrlAuthorities, t \in UrlTails :
           fn_arg = sch \o a \o t =>
             IF sch = << >> \/ a = << >> THEN fn_ret = None
             ELSE HostOfAuthority(a) # << >> => fn_ret = HostOfAuthority(a)
      /\ fn_arg = <<"not", " ", "a", " ", "url">> => fn_ret = None
      /\ fn_arg = <<"https://", "www.", "Acme", ".", "com", "/", "page", "?", "x=1">>
           => fn_ret = <<"acme", ".", "com">>

\* C19: determinism.  With a search provider and liveness checks that
\* answer the same request the same way every time, a second call of
\* finder.find_best_website_for_entity with the arguments of the first makes
\* the requests of the first, in the same order (at every moment the
\* requests of the second call are the first requests of the first call),
\* and it ends as the first ended: with a ResultRow equal in every field.
C19_SecondCallSame ==
    run = 2 =>
      /\ Len(log) <= Len(first_call.log)
      /\ \A i \in 1..Len(log) : log[i] = first_call.log[i]
      /\ pc = "done" =>
           /\ log = first_call.log
           /\ raised = first_call.raised
           /\ result = first_call.result

\* both calls made a search request and four probes, and returned the row
\* of a guess
C19_Witness ==
    /\ run = 2
    /\ pc = "done"
    /\ SearchCalls = 1
    /\ Len(log) >= 5
    /\ result.method = "guess"
    /\ result = first_call.result

\* the entity-name field of the row is missing or blank
NameBlank(row) == row.name = None \/ Strip(row.name) = EmptyStr

\* the names, trimmed, of the first n rows that have one
RECURSIVE NamesGiven(_)
NamesGiven(n) ==
    IF n = 0 THEN << >>
    ELSE IF NameBlank(rows[n]) THEN NamesGiven(n - 1)
    ELSE Append(NamesGiven(n - 1), Strip(rows[n].name))

\* C20: the batch loops.  In main of the CLI and in the run loop of the
\* app, no row makes the loop raise; a processed row whose entity-name
\* field is missing or blank is skipped without a call of the resolver;
\* every other processed row is one call of the resolver and one result
\* appended: the results, and the calls, are those of the rows with a name,
\* in input order, and the resolver is never called with an empty name.
C20_OneResultPerNamedRow ==
    batch_pc \in {"loop", "done", "raised"} =>
      /\ batch_pc # "raised"
      /\ resolver_calls = NamesGiven(row_i - 1)
      /\ Len(rows_out) = Len(resolver_calls)
      /\ \A k \in 1..Len(rows_out) : rows_out[k].entity_name = resolver_calls[k]
      /\ \A k \in 1..Len(resolver_calls) : resolver_calls[k] # EmptyStr

\* the search API answered with success and a body without items: no
\* "items" entry, a null one, or an empty list
NoItemsResponse ==
    \/ search_reply.kind \in {"no_items", "null_items"}
    \/ search_reply.kind = "items" /\ search_reply.n = 0

\* the candidates are the guesses of the name and nothing else: https and
\* http of base.tld for every configured TLD, in order
GuessesOnly ==
    /\ metadata.google_domains = << >>
    /\ Len(candidates) =
         (IF domain_base = EmptyStr THEN 0 ELSE 2 * Len(try_tlds))
    /\ \A k \in 1..Len(candidates) :
         /\ candidates[k].method = "guess"
         /\ candidates[k].url =
              UrlOf(IF k % 2 = 1 THEN "https://" ELSE "http://",
                    domain_base \o <<".", try_tlds[(k + 1) \div 2]>>)

\* C22: a successful response of the search API without items (absent,
\* null or empty) makes the search return an empty list and not raise: the
\* call goes on with no search host, to the guessed candidates.  A
\* non-success response raises out of the search and is caught by the
\* resolver, which goes on in the same way.
C22_NoItemsIsEmptyList ==
    /\ NoItemsResponse =>
         /\ search_outcome = "returned"
         /\ search_hosts = << >>
         /\ ~raised
         /\ pc # "assemble"
         /\ GuessesOnly
    /\ search_reply.kind = "http_error" =>
         /\ search_outcome = "raised"
         /\ ~raised
         /\ pc # "assemble"
         /\ GuessesOnly

\* the body had "items": null and the call returned a live guess
C22_Witness ==
    /\ Returned
    /\ search_reply.kind = "null_items"
    /\ result.method = "guess"

\* C23: the GET fallback alone decides.  A step that makes the GET fallback
\* starts where the HEAD probe of the candidate has got a response; the
\* check then returns what the GET says and nothing of the HEAD response:
\* live, status and URL of the GET response, or (False, None, None) when the
\* GET raised a transport exception.
C23_GetAloneDecides ==
    [][pc = "get" =>
         /\ last_reply.kind = "HEAD"
         /\ ~last_reply.raised
         /\ last_reply.status_code # StatusNone
         /\ last_reply'.kind = "GET"
         /\ outcome' =
              IF last_reply'.raised
              THEN [live |-> FALSE, status |-> StatusNone, final_url |-> None]
              ELSE [live |-> (200 <= last_reply'.status_code
                              /\ last_reply'.status_code < 400),
                    status |-> last_reply'.status_code,
                    final_url |-> last_reply'.url]
         /\ probed' = Append(probed, [pos |-> idx, live |-> outcome'.live])]_vars

\* the GET fallback of the last candidate raised after its HEAD probe had
\* got a response, and the call returned the "none" row
C23_Witness ==
    /\ Returned
    /\ result.method = "none"
    /\ Len(log) >= 2
    /\ log[Len(log)].kind = "GET"
    /\ log[Len(log) - 1].kind = "HEAD"
    /\ last_reply.raised
    /\ outcome = [live |-> FALSE, status |-> StatusNone, final_url |-> None]

\* the liveness checks started so far: every check starts with its HEAD
Checks == Cardinality({i \in 1..Len(log) : log[i].kind = "HEAD"})

\* the checks started for the candidate at position p
ChecksOf(p) ==
    Cardinality({i \in 1..Len(log) : log[i].kind = "HEAD" /\ log[i].pos = p})

\* C25: termination.  With every network call returning or failing within
\* its timeout, the call eventually returns a row; all along it has made at
\* most one search call and at most 2 * (search hosts + configured TLDs)
\* liveness checks, at most one per position of the candidate list, and
\* when it returns the last check was live or the list is exhausted.
C25_Terminates ==
    /\ <>(pc = "done" /\ ~raised /\ result # NoResult)
    /\ [](/\ SearchCalls <= 1
          /\ Checks <= 2 * (Len(search_hosts) + Len(try_tlds))
          /\ \A p \in 1..Len(candidates) : ChecksOf(p) <= 1
          /\ \A i \in ProbeIdx : log[i].pos \in 1..Len(candidates)
          /\ Returned =>
               \/ probed # << >> /\ probed[Len(probed)].live
               \/ Len(probed) = Len(candidates))

\* the longest call: two search hosts and two TLDs, all eight candidates
\* checked, none live
C25_Witness ==
    /\ Returned
    /\ SearchCalls = 1
    /\ Len(search_hosts) = 2
    /\ Len(try_tlds) = 2
    /\ Checks = 8
    /\ result.method = "none"

\* C24: the defensive fallback of finder.find_best_website_for_entity.
\* When a check reports live with no final URL (None), the call does not
\* raise: it returns a row whose best_url is the URL of the candidate and
\* whose best_domain is the host of that URL.
C24_LiveWithoutFinalUrl ==
    (/\ impl = "finder"
     /\ probed # << >>
     /\ probed[Len(probed)].live
     /\ outcome.final_url = None) =>
      /\ ~raised
      /\ pc = "done"
      /\ result # NoResult
      /\ result.method = candidates[LastPos].method
      /\ result.best_url = candidates[LastPos].url
      /\ result.best_domain = Netloc(candidates[LastPos].url)

\* C27: the deny list and the result.  A row that
\* finder.find_best_website_for_entity returns with the method "google"
\* never has a best_domain that is in COMMON_NON_OFFICIAL_HOSTS.
C27_BestDomainNotDenied ==
    (Returned /\ impl = "finder" /\ result.method = "google") =>
      result.best_domain \notin COMMON_NON_OFFICIAL_HOSTS

\* a request to a candidate URL
IsProbe(e) == e.kind \in {"HEAD", "GET"}

\* C28: the two implementations are interchangeable.  Called with the same
\* entity name, location hint, credentials and TLD list, against a search
\* API that returns the same raw items and a network that answers every
\* request in the same way, finder.find_best_website_for_entity and
\* find_entity_websites.find_best_website_for_entity make the same requests
\* to the same URLs in the same order and return rows equal in every field.
C28_SameProbesSameRow ==
    (run = 2 /\ impl = "cli" /\ pc = "done") =>
      /\ raised = first_call.raised
      /\ SelectSeq(log, IsProbe) = SelectSeq(first_call.log, IsProbe)
      /\ result = first_call.result

\* the location group of a result: its area code, "UNKNOWN" when empty
GroupOf(r) == IF r.area_code = EmptyStr THEN <<"UNKNOWN">> ELSE r.area_code

\* the master results of one location, in input order
ResultsOf(key) == SelectSeq(rows_out, LAMBDA r : GroupOf(r) = key)

\* C26: the export of main.  After the batch the master file holds the
\* results in input order; every result is in exactly one location group,
\* that of its area code ("UNKNOWN" when the area code is empty), and every
\* group holds its results in input order; one file is written for every
\* location: as many per-location files as there are locations, the file of
\* a location holding exactly its results, so that no file replaces that of
\* another location.
C26_OneFilePerLocation ==
    (driver = "cli" /\ batch_pc = "done") =>
      LET keys == {GroupOf(rows_out[k]) : k \in 1..Len(rows_out)}
          areaFiles == {f \in files : f.path # <<"master_results.csv">>}
      IN  /\ \E f \in files :
                f.path = <<"master_results.csv">> /\ f.rows = rows_out
          /\ {by_area[g].key : g \in 1..Len(by_area)} = keys
          /\ \A g, h \in 1..Len(by_area) :
                by_area[g].key = by_area[h].key => g = h
          /\ \A g \in 1..Len(by_area) :
                by_area[g].items = ResultsOf(by_area[g].key)
          /\ Cardinality(areaFiles) = Cardinality(keys)
          /\ \A key \in keys : \E f \in areaFiles : f.rows = ResultsOf(key)

\* the rows of the input file that have a name
NamedRows == {k \in 1..Len(rows) : ~NameBlank(rows[k])}

\* C21: independence of the rows of a batch.  In main's loop (1) every call
\* of the resolver starts with new locals: no candidate, audit entry,
\* request or result of an earlier row is left; (2) no search failure and
\* no failed liveness check stops the batch: the loop never raises, and
\* when it is over every row with a name has its result in the master
\* list, the one its call returned; (3) the resolver called alone with the
\* arguments of a row, against a network that answers every query and every
\* request as in the batch, returns the row's result after the same
\* sequence of requests.
C21_RowsIndependent ==
    /\ (batch_pc = "call" /\ pc = "assemble") =>
         /\ candidates = << >>
         /\ metadata = [google_domains |-> << >>, guessed_urls |-> << >>]
         /\ log = << >>
         /\ probed = << >>
         /\ result = NoResult
         /\ entity_name = Strip(rows[row_i].name)
    /\ batch_pc # "raised"
    /\ \A k \in 1..Len(calls) : ~calls[k].raised
    /\ batch_pc \in {"done", "alone"} =>
         /\ Len(calls) = Cardinality(NamedRows)
         /\ Len(rows_out) = Len(calls)
         /\ \A k \in 1..Len(calls) :
              /\ rows_out[k] = calls[k].result
              /\ rows_out[k].entity_name = resolver_calls[k]
    /\ (batch_pc = "alone" /\ pc = "done") =>
         /\ raised = calls[row_i].raised
         /\ result = calls[row_i].result
         /\ log = calls[row_i].log

\* the search of the first row failed and so did its first check; the second
\* row, another entity, got a live search host after a GET fallback, and
\* called alone its resolver returned the same
C21_Witness ==
    /\ batch_pc = "alone"
    /\ pc = "done"
    /\ row_i = 2
    /\ Len(calls) = 2
    /\ Len(calls[1].log) >= 3
    /\ \E e \in stub :
         /\ e.kind = "SEARCH"
         /\ e.url = calls[1].log[1].url
         /\ e.reply.kind = "transport"
    /\ calls[1].entity_name # calls[2].entity_name
    /\ result.method = "google"
    /\ \E i \in 1..Len(log) : log[i].kind = "GET"

====
